---- MODULE Spec2Model ----
(***************************************************************************)
(* Password Strength Analyzer: the PasswordAnalyzer class (analysis engine *)
(* and the page logic that drives it).                                     *)
(*                                                                         *)
(* Strings are sequences of one-character strings.  JavaScript numbers are *)
(* modelled in fixed point: entropies in micro-bits (Unit per bit), scores *)
(* in millionths (One is the score 1.0).  Divisions truncate; the error of *)
(* the representation is below 10^-5 of a score point.                     *)
(***************************************************************************)
EXTENDS Integers, Sequences, FiniteSets, TLC

(* ----------------------------- numbers --------------------------------- *)

\* one bit of entropy, in the fixed-point unit of the entropy metrics
Unit == 1000000

\* the score 1.0, in the fixed-point unit of strength.score
One == 1000000

\* Number.POSITIVE_INFINITY: what Math.pow returns on overflow, and what
\* Math.log2 returns for it
Infinity == 2147483647

\* the largest binary exponent of a finite double: x >= 2^1024 is Infinity
DoubleMaxExp == 1024

\* Math.log2(n) for the integers n = 1..768, in micro-bits
Log2Table ==
 <<
    0, 1000000, 1584963, 2000000, 2321928, 2584963, 2807355, 3000000, 3169925, 3321928, 3459432, 3584963,
    3700440, 3807355, 3906891, 4000000, 4087463, 4169925, 4247928, 4321928, 4392317, 4459432, 4523562, 4584963,
    4643856, 4700440, 4754888, 4807355, 4857981, 4906891, 4954196, 5000000, 5044394, 5087463, 5129283, 5169925,
    5209453, 5247928, 5285402, 5321928, 5357552, 5392317, 5426265, 5459432, 5491853, 5523562, 5554589, 5584963,
    5614710, 5643856, 5672425, 5700440, 5727920, 5754888, 5781360, 5807355, 5832890, 5857981, 5882643, 5906891,
    5930737, 5954196, 5977280, 6000000, 6022368, 6044394, 6066089, 6087463, 6108524, 6129283, 6149747, 6169925,
    6189825, 6209453, 6228819, 6247928, 6266787, 6285402, 6303781, 6321928, 6339850, 6357552, 6375039, 6392317,
    6409391, 6426265, 6442943, 6459432, 6475733, 6491853, 6507795, 6523562, 6539159, 6554589, 6569856, 6584963,
    6599913, 6614710, 6629357, 6643856, 6658211, 6672425, 6686501, 6700440, 6714246, 6727920, 6741467, 6754888,
    6768184, 6781360, 6794416, 6807355, 6820179, 6832890, 6845490, 6857981, 6870365, 6882643, 6894818, 6906891,
    6918863, 6930737, 6942515, 6954196, 6965784, 6977280, 6988685, 7000000, 7011227, 7022368, 7033423, 7044394,
    7055282, 7066089, 7076816, 7087463, 7098032, 7108524, 7118941, 7129283, 7139551, 7149747, 7159871, 7169925,
    7179909, 7189825, 7199672, 7209453, 7219169, 7228819, 7238405, 7247928, 7257388, 7266787, 7276124, 7285402,
    7294621, 7303781, 7312883, 7321928, 7330917, 7339850, 7348728, 7357552, 7366322, 7375039, 7383704, 7392317,
    7400879, 7409391, 7417853, 7426265, 7434628, 7442943, 7451211, 7459432, 7467606, 7475733, 7483816, 7491853,
    7499846, 7507795, 7515700, 7523562, 7531381, 7539159, 7546894, 7554589, 7562242, 7569856, 7577429, 7584963,
    7592457, 7599913, 7607330, 7614710, 7622052, 7629357, 7636625, 7643856, 7651052, 7658211, 7665336, 7672425,
    7679480, 7686501, 7693487, 7700440, 7707359, 7714246, 7721099, 7727920, 7734710, 7741467, 7748193, 7754888,
    7761551, 7768184, 7774787, 7781360, 7787903, 7794416, 7800900, 7807355, 7813781, 7820179, 7826548, 7832890,
    7839204, 7845490, 7851749, 7857981, 7864186, 7870365, 7876517, 7882643, 7888743, 7894818, 7900867, 7906891,
    7912889, 7918863, 7924813, 7930737, 7936638, 7942515, 7948367, 7954196, 7960002, 7965784, 7971544, 7977280,
    7982994, 7988685, 7994353, 8000000, 8005625, 8011227, 8016808, 8022368, 8027906, 8033423, 8038919, 8044394,
    8049849, 8055282, 8060696, 8066089, 8071462, 8076816, 8082149, 8087463, 8092757, 8098032, 8103288, 8108524,
    8113742, 8118941, 8124121, 8129283, 8134426, 8139551, 8144658, 8149747, 8154818, 8159871, 8164907, 8169925,
    8174926, 8179909, 8184875, 8189825, 8194757, 8199672, 8204571, 8209453, 8214319, 8219169, 8224002, 8228819,
    8233620, 8238405, 8243174, 8247928, 8252665, 8257388, 8262095, 8266787, 8271463, 8276124, 8280771, 8285402,
    8290019, 8294621, 8299208, 8303781, 8308339, 8312883, 8317413, 8321928, 8326429, 8330917, 8335390, 8339850,
    8344296, 8348728, 8353147, 8357552, 8361944, 8366322, 8370687, 8375039, 8379378, 8383704, 8388017, 8392317,
    8396605, 8400879, 8405141, 8409391, 8413628, 8417853, 8422065, 8426265, 8430453, 8434628, 8438792, 8442943,
    8447083, 8451211, 8455327, 8459432, 8463524, 8467606, 8471675, 8475733, 8479780, 8483816, 8487840, 8491853,
    8495855, 8499846, 8503826, 8507795, 8511753, 8515700, 8519636, 8523562, 8527477, 8531381, 8535275, 8539159,
    8543032, 8546894, 8550747, 8554589, 8558421, 8562242, 8566054, 8569856, 8573647, 8577429, 8581201, 8584963,
    8588715, 8592457, 8596190, 8599913, 8603626, 8607330, 8611025, 8614710, 8618386, 8622052, 8625709, 8629357,
    8632995, 8636625, 8640245, 8643856, 8647458, 8651052, 8654636, 8658211, 8661778, 8665336, 8668885, 8672425,
    8675957, 8679480, 8682995, 8686501, 8689998, 8693487, 8696968, 8700440, 8703904, 8707359, 8710806, 8714246,
    8717676, 8721099, 8724514, 8727920, 8731319, 8734710, 8738092, 8741467, 8744834, 8748193, 8751544, 8754888,
    8758223, 8761551, 8764872, 8768184, 8771489, 8774787, 8778077, 8781360, 8784635, 8787903, 8791163, 8794416,
    8797662, 8800900, 8804131, 8807355, 8810572, 8813781, 8816984, 8820179, 8823367, 8826548, 8829723, 8832890,
    8836050, 8839204, 8842350, 8845490, 8848623, 8851749, 8854868, 8857981, 8861087, 8864186, 8867279, 8870365,
    8873444, 8876517, 8879583, 8882643, 8885696, 8888743, 8891784, 8894818, 8897845, 8900867, 8903882, 8906891,
    8909893, 8912889, 8915879, 8918863, 8921841, 8924813, 8927778, 8930737, 8933691, 8936638, 8939579, 8942515,
    8945444, 8948367, 8951285, 8954196, 8957102, 8960002, 8962896, 8965784, 8968667, 8971544, 8974415, 8977280,
    8980140, 8982994, 8985842, 8988685, 8991522, 8994353, 8997179, 9000000, 9002815, 9005625, 9008429, 9011227,
    9014020, 9016808, 9019591, 9022368, 9025140, 9027906, 9030667, 9033423, 9036174, 9038919, 9041659, 9044394,
    9047124, 9049849, 9052568, 9055282, 9057992, 9060696, 9063395, 9066089, 9068778, 9071462, 9074141, 9076816,
    9079485, 9082149, 9084808, 9087463, 9090112, 9092757, 9095397, 9098032, 9100662, 9103288, 9105909, 9108524,
    9111136, 9113742, 9116344, 9118941, 9121534, 9124121, 9126704, 9129283, 9131857, 9134426, 9136991, 9139551,
    9142107, 9144658, 9147205, 9149747, 9152285, 9154818, 9157347, 9159871, 9162391, 9164907, 9167418, 9169925,
    9172428, 9174926, 9177420, 9179909, 9182394, 9184875, 9187352, 9189825, 9192293, 9194757, 9197217, 9199672,
    9202124, 9204571, 9207014, 9209453, 9211888, 9214319, 9216746, 9219169, 9221587, 9224002, 9226412, 9228819,
    9231221, 9233620, 9236014, 9238405, 9240791, 9243174, 9245553, 9247928, 9250298, 9252665, 9255029, 9257388,
    9259743, 9262095, 9264443, 9266787, 9269127, 9271463, 9273796, 9276124, 9278449, 9280771, 9283088, 9285402,
    9287712, 9290019, 9292322, 9294621, 9296916, 9299208, 9301496, 9303781, 9306062, 9308339, 9310613, 9312883,
    9315150, 9317413, 9319672, 9321928, 9324181, 9326429, 9328675, 9330917, 9333155, 9335390, 9337622, 9339850,
    9342075, 9344296, 9346514, 9348728, 9350939, 9353147, 9355351, 9357552, 9359750, 9361944, 9364135, 9366322,
    9368506, 9370687, 9372865, 9375039, 9377211, 9379378, 9381543, 9383704, 9385862, 9388017, 9390169, 9392317,
    9394463, 9396605, 9398744, 9400879, 9403012, 9405141, 9407268, 9409391, 9411511, 9413628, 9415742, 9417853,
    9419960, 9422065, 9424166, 9426265, 9428360, 9430453, 9432542, 9434628, 9436712, 9438792, 9440869, 9442943,
    9445015, 9447083, 9449149, 9451211, 9453271, 9455327, 9457381, 9459432, 9461479, 9463524, 9465566, 9467606,
    9469642, 9471675, 9473706, 9475733, 9477758, 9479780, 9481799, 9483816, 9485829, 9487840, 9489848, 9491853,
    9493855, 9495855, 9497852, 9499846, 9501837, 9503826, 9505812, 9507795, 9509775, 9511753, 9513728, 9515700,
    9517669, 9519636, 9521600, 9523562, 9525521, 9527477, 9529431, 9531381, 9533330, 9535275, 9537218, 9539159,
    9541097, 9543032, 9544964, 9546894, 9548822, 9550747, 9552669, 9554589, 9556506, 9558421, 9560333, 9562242,
    9564149, 9566054, 9567956, 9569856, 9571753, 9573647, 9575539, 9577429, 9579316, 9581201, 9583083, 9584963
 >>

log2(n) == Log2Table[n]

Min(a, b) == IF a <= b THEN a ELSE b

Max(a, b) == IF a >= b THEN a ELSE b

\* Math.round of a non-negative fixed-point number x with unit u
Round(x, u) == (x + u \div 2) \div u

(* ---------------------------- characters ------------------------------- *)

LowerSeq == <<"a", "b", "c", "d", "e", "f", "g", "h", "i", "j", "k", "l", "m", "n", "o", "p", "q", "r", "s", "t", "u", "v", "w", "x", "y", "z">>

UpperSeq == <<"A", "B", "C", "D", "E", "F", "G", "H", "I", "J", "K", "L", "M", "N", "O", "P", "Q", "R", "S", "T", "U", "V", "W", "X", "Y", "Z">>

DigitSeq == <<"0", "1", "2", "3", "4", "5", "6", "7", "8", "9">>

Range(s) == {s[i] : i \in 1..Len(s)}

Lower == Range(LowerSeq)

Upper == Range(UpperSeq)

Digit == Range(DigitSeq)

\* \w of the regular expressions
WordChar == Lower \cup Upper \cup Digit \cup {"_"}

\* \s of String.prototype.trim
WhiteSpace == {" "}

\* String.prototype.toLowerCase, one character
LowerOf(c) ==
    IF c \in Upper THEN LowerSeq[CHOOSE i \in 1..26 : UpperSeq[i] = c] ELSE c

toLowerCase(s) == [i \in 1..Len(s) |-> LowerOf(s[i])]

\* a trim that removes nothing
trim_None(s) == s

\* String.prototype.trim: what lies between the first and the last character
\* that is not white space
trim(s) ==
    IF \A i \in 1..Len(s) : s[i] \in WhiteSpace THEN <<>>
    ELSE SubSeq(s,
                CHOOSE i \in 1..Len(s) :
                    s[i] \notin WhiteSpace /\ \A j \in 1..(i - 1) : s[j] \in WhiteSpace,
                CHOOSE i \in 1..Len(s) :
                    s[i] \notin WhiteSpace /\ \A j \in (i + 1)..Len(s) : s[j] \in WhiteSpace)

(* ----------------------- regular expressions --------------------------- *)

\* \b at offset k of s: exactly one of s[k], s[k+1] is a word character
IsWordAt(s, j) == j \in 1..Len(s) /\ s[j] \in WordChar

Boundary(s, k) == IsWordAt(s, k) # IsWordAt(s, k + 1)

AllDigits(s) == \A j \in 1..Len(s) : s[j] \in Digit

\* the matches <<start, end>> of an alternation W of literals in s
LiteralSpans(s, W) ==
    {<<x[1], x[1] + x[2]>> :
        x \in {y \in (0..Len(s)) \X {Len(w) : w \in W} :
                  y[1] + y[2] <= Len(s) /\ SubSeq(s, y[1] + 1, y[1] + y[2]) \in W}}

\* the same, each alternative between two \b
WordSpans(s, W) ==
    {sp \in LiteralSpans(s, W) : Boundary(s, sp[1]) /\ Boundary(s, sp[2])}

\* this.commonPatterns: the flags of the five regular expressions
RegExpNames == {"keyboard", "repeated", "sequential", "date", "leet"}

\* the keyboard expression written with the g flag
Flags_Global ==
    [keyboard |-> {"i", "g"}, repeated |-> {}, sequential |-> {"i"},
     date |-> {}, leet |-> {"i"}]

Flags ==
    [keyboard |-> {"i"}, repeated |-> {}, sequential |-> {"i"},
     date |-> {}, leet |-> {"i"}]

Fold(re, s) == IF "i" \in Flags[re] THEN toLowerCase(s) ELSE s

\* /qwerty|asdf|zxcv|1234|abcd/
KeyboardWords ==
    {<<"q", "w", "e", "r", "t", "y">>, <<"a", "s", "d", "f">>,
     <<"z", "x", "c", "v">>, <<"1", "2", "3", "4">>, <<"a", "b", "c", "d">>}

\* /(abc|bcd|...|xyz|012|123|...|789)/
SequentialRuns ==
    {SubSeq(LowerSeq, i, i + 2) : i \in 1..24} \cup
    {SubSeq(DigitSeq, i, i + 2) : i \in 1..8}

\* /(.)\1{2,}/: a character and at least two more copies of it (greedy)
RunEnd(s, i) ==
    CHOOSE e \in (i + 1)..Len(s) :
        /\ \A j \in (i + 1)..e : s[j] = s[i + 1]
        /\ (e = Len(s) \/ s[e + 1] # s[i + 1])

RepeatedSpans(s) ==
    {<<i, RunEnd(s, i)>> : i \in {j \in 0..(Len(s) - 3) : s[j + 1] = s[j + 2] /\ s[j + 2] = s[j + 3]}}

\* /[4@][5$][7!][3e][0o]/
LeetClasses ==
    <<{"4", "@"}, {"5", "$"}, {"7", "!"}, {"3", "e"}, {"0", "o"}>>

LeetSpans(s) ==
    {<<i, i + 5>> : i \in {j \in 0..(Len(s) - 5) : \A k \in 1..5 : s[j + k] \in LeetClasses[k]}}

\* /\b(19|20)\d{2}\b/
YearSpans(s) ==
    {<<i, i + 4>> : i \in {j \in 0..(Len(s) - 4) :
        /\ SubSeq(s, j + 1, j + 2) \in {<<"1", "9">>, <<"2", "0">>}
        /\ s[j + 3] \in Digit /\ s[j + 4] \in Digit
        /\ Boundary(s, j) /\ Boundary(s, j + 4)}}

NonZero == Digit \ {"0"}

\* (0?[1-9]|1[0-2]): the first field of the date expression
FirstField ==
    {<<d>> : d \in NonZero} \cup {<<"0", d>> : d \in NonZero} \cup
    {<<"1", "0">>, <<"1", "1">>, <<"1", "2">>}

\* (0?[1-9]|[12]\d|3[01]): the second field of the date expression
SecondField ==
    {<<d>> : d \in NonZero} \cup {<<"0", d>> : d \in NonZero} \cup
    {<<x, d>> : x \in {"1", "2"}, d \in Digit} \cup
    {<<"3", "0">>, <<"3", "1">>}

DateSeparator == {"/", "-"}

\* the date expression with the groups of day and month exchanged
FieldsAt_DayFirst(s, i, a, b, c) ==
    /\ i + a + 1 + b + 1 + c <= Len(s)
    /\ SubSeq(s, i + 1, i + a) \in SecondField
    /\ s[i + a + 1] \in DateSeparator
    /\ SubSeq(s, i + a + 2, i + a + 1 + b) \in FirstField
    /\ s[i + a + b + 2] \in DateSeparator
    /\ AllDigits(SubSeq(s, i + a + b + 3, i + a + b + 2 + c))
    /\ Boundary(s, i) /\ Boundary(s, i + a + b + 2 + c)

\* /\b(0?[1-9]|1[0-2])[\/\-](0?[1-9]|[12]\d|3[01])[\/\-](\d{2}|\d{4})\b/
FieldsAt(s, i, a, b, c) ==
    /\ i + a + 1 + b + 1 + c <= Len(s)
    /\ SubSeq(s, i + 1, i + a) \in FirstField
    /\ s[i + a + 1] \in DateSeparator
    /\ SubSeq(s, i + a + 2, i + a + 1 + b) \in SecondField
    /\ s[i + a + b + 2] \in DateSeparator
    /\ AllDigits(SubSeq(s, i + a + b + 3, i + a + b + 2 + c))
    /\ Boundary(s, i) /\ Boundary(s, i + a + b + 2 + c)

\* a match starts at a digit: the widths of the three groups are tried there
FieldSpans(s) ==
    {<<x[1], x[1] + x[2] + x[3] + 2 + x[4]>> :
        x \in {y \in {i \in 0..(Len(s) - 1) : s[i + 1] \in Digit}
                        \X (1..2) \X (1..2) \X {2, 4} :
                  FieldsAt(s, y[1], y[2], y[3], y[4])}}

DateSpans(s) == YearSpans(s) \cup FieldSpans(s)

\* every match of the regular expression re in s
SpansOf(re, s) ==
    CASE re = "keyboard" -> LiteralSpans(s, KeyboardWords)
      [] re = "repeated" -> RepeatedSpans(s)
      [] re = "sequential" -> LiteralSpans(s, SequentialRuns)
      [] re = "date" -> DateSpans(s)
      [] re = "leet" -> LeetSpans(s)

Spans(re, s) == SpansOf(re, Fold(re, s))

\* the match the engine reports among the spans starting at li or later:
\* the leftmost one, the longest of those
FirstSpan(S) ==
    CHOOSE sp \in S : \A o \in S : sp[1] < o[1] \/ (sp[1] = o[1] /\ sp[2] >= o[2])

\* RegExp.prototype.test: the answer and the lastIndex it leaves.  Without
\* the g flag the search starts at 0 and lastIndex is not touched.
Exec(global, S, li) ==
    IF global
    THEN IF \A sp \in S : sp[1] < li THEN [found |-> FALSE, lastIndex |-> 0]
         ELSE [found |-> TRUE, lastIndex |-> FirstSpan({sp \in S : sp[1] >= li})[2]]
    ELSE [found |-> S # {}, lastIndex |-> li]

test(re, s, li) == Exec("g" \in Flags[re], Spans(re, s), li)

(* --------------------------- the engine -------------------------------- *)

\* this.commonPasswords
commonPasswords ==
    {<<"p", "a", "s", "s", "w", "o", "r", "d">>,
     <<"1", "2", "3", "4", "5", "6">>,
     <<"1", "2", "3", "4", "5", "6", "7", "8", "9">>,
     <<"q", "w", "e", "r", "t", "y">>,
     <<"a", "b", "c", "1", "2", "3">>,
     <<"p", "a", "s", "s", "w", "o", "r", "d", "1", "2", "3">>,
     <<"a", "d", "m", "i", "n">>,
     <<"l", "e", "t", "m", "e", "i", "n">>,
     <<"w", "e", "l", "c", "o", "m", "e">>,
     <<"m", "o", "n", "k", "e", "y">>,
     <<"1", "2", "3", "4", "5", "6", "7", "8", "9", "0">>,
     <<"d", "r", "a", "g", "o", "n">>}

\* the four presence tests /[a-z]/, /[A-Z]/, /[0-9]/, /[^a-zA-Z0-9]/
HasLower(s) == \E i \in 1..Len(s) : s[i] \in Lower

HasUpper(s) == \E i \in 1..Len(s) : s[i] \in Upper

HasDigit(s) == \E i \in 1..Len(s) : s[i] \in Digit

\* the last test written as a list of symbols that leaves out the ampersand
HasOther_Listed(s) ==
    \E i \in 1..Len(s) : s[i] \in {"!", "@", "#", "$", "%", "^", "*"}

HasOther(s) == \E i \in 1..Len(s) : s[i] \notin (Lower \cup Upper \cup Digit)

\* freq[char]: the occurrences of c in s
Count(s, c) == Cardinality({i \in 1..Len(s) : s[i] = c})

\* f[lo] + ... + f[hi], halving the range
RECURSIVE SumRange(_, _, _)
SumRange(f, lo, hi) ==
    IF lo > hi THEN 0
    ELSE IF lo = hi THEN f[lo]
    ELSE SumRange(f, lo, (lo + hi) \div 2) + SumRange(f, (lo + hi) \div 2 + 1, hi)

\* the sum of term[c] over the distinct characters c of s, each taken where
\* it occurs first (the order of Object.values(freq))
SumOver(s, term) ==
    SumRange([i \in 1..Len(s) |->
                 IF \A j \in 1..(i - 1) : s[j] # s[i] THEN term[s[i]] ELSE 0],
             1, Len(s))

\* length * (-p * log2(p)) for p = count / length, which is
\* count * (log2(length) - log2(count))
TermOf(count, length) == count * (log2(length) - log2(count))

ShannonTerm(password, c) == TermOf(Count(password, c), Len(password))

\* the sum taken with += instead of -=
calculateShannonEntropy_Sign(password) ==
    0 - SumOver(password, [c \in Range(password) |-> ShannonTerm(password, c)])

\* entropy * length, where entropy = - sum of p * log2(p) over freq: the
\* factor length is taken into each term
calculateShannonEntropy(password) ==
    SumOver(password, [c \in Range(password) |-> ShannonTerm(password, c)])

\* 0 / 0 of calculateUniqueness
NaN == -2147483647

\* (unique / length) * 100, in units of 1/10000 percent (100% = One)
calculateUniqueness(password) ==
    IF Len(password) = 0 THEN NaN
    ELSE (Cardinality(Range(password)) * One) \div Len(password)

\* Math.log2(Math.pow(charset, length)): the power is Infinity from 2^1024 on
Log2Pow(charset, length) ==
    IF length = 0 THEN 0
    ELSE IF length * log2(charset) >= DoubleMaxExp * Unit THEN Infinity
    ELSE length * log2(charset)

\* the last test written /[^a-z0-9]/, so that capitals count as symbols too
Charset_OtherIncludesUpper(password) ==
    (IF HasLower(password) THEN 26 ELSE 0) + (IF HasUpper(password) THEN 26 ELSE 0) +
    (IF HasDigit(password) THEN 10 ELSE 0) +
    (IF \E i \in 1..Len(password) : password[i] \notin (Lower \cup Digit) THEN 32 ELSE 0)

Charset(password) ==
    (IF HasLower(password) THEN 26 ELSE 0) + (IF HasUpper(password) THEN 26 ELSE 0) +
    (IF HasDigit(password) THEN 10 ELSE 0) + (IF HasOther(password) THEN 32 ELSE 0)

calculateEntropy(password) ==
    [shannon |-> calculateShannonEntropy(password),
     nist |-> Log2Pow(Charset(password), Len(password)),
     charset |-> Charset(password),
     uniqueness |-> calculateUniqueness(password)]

PersonalNames ==
    {<<"j", "o", "h", "n">>, <<"j", "a", "n", "e">>, <<"m", "i", "k", "e">>,
     <<"s", "a", "r", "a", "h">>, <<"d", "a", "v", "i", "d">>, <<"m", "a", "r", "y">>,
     <<"j", "a", "m", "e", "s">>, <<"l", "i", "s", "a">>}

AccountWords ==
    {<<"a", "d", "m", "i", "n">>, <<"u", "s", "e", "r">>, <<"t", "e", "s", "t">>,
     <<"d", "e", "m", "o">>}

\* /\b\d{4}\b/
FourDigits(s) ==
    \E i \in 0..(Len(s) - 4) :
        AllDigits(SubSeq(s, i + 1, i + 4)) /\ Boundary(s, i) /\ Boundary(s, i + 4)

\* the heuristics without the expression for years
detectPersonalInfo_NamesOnly(password) ==
    \/ WordSpans(toLowerCase(password), PersonalNames) # {}
    \/ WordSpans(toLowerCase(password), AccountWords) # {}

detectPersonalInfo(password) ==
    \/ WordSpans(toLowerCase(password), PersonalNames) # {}
    \/ WordSpans(toLowerCase(password), AccountWords) # {}
    \/ FourDigits(password)

FlagNames ==
    {"keyboard", "repeated", "sequential", "date", "leet", "dictionary", "personal"}

\* the object detectPatterns builds before it counts
PatternFlags(password, li) ==
    [keyboard |-> test("keyboard", password, li["keyboard"]).found,
     repeated |-> test("repeated", password, li["repeated"]).found,
     sequential |-> test("sequential", password, li["sequential"]).found,
     date |-> test("date", password, li["date"]).found,
     leet |-> test("leet", password, li["leet"]).found,
     dictionary |-> toLowerCase(password) \in commonPasswords,
     personal |-> detectPersonalInfo(password)]

\* a count taken over the five regular expressions only
CountTrue_RegExpOnly(flags) == Cardinality({k \in RegExpNames : flags[k] = TRUE})

\* Object.values(patterns).filter(Boolean).length
CountTrue(flags) == Cardinality({k \in DOMAIN flags : flags[k] = TRUE})

\* patterns.count = ...: the object with the field count added
WithCount(flags) ==
    [keyboard |-> flags.keyboard, repeated |-> flags.repeated,
     sequential |-> flags.sequential, date |-> flags.date, leet |-> flags.leet,
     dictionary |-> flags.dictionary, personal |-> flags.personal,
     count |-> CountTrue(flags)]

detectPatterns(password, li) == WithCount(PatternFlags(password, li))

\* the lastIndex each regular expression is left with by detectPatterns:
\* only an expression with the g flag moves it
LastIndexAfter(password, li) ==
    [re \in RegExpNames |->
        IF "g" \in Flags[re] THEN test(re, password, li[re]).lastIndex ELSE li[re]]

\* the thresholds compared with > instead of >=
getStrengthLevel_Exclusive(score) ==
    IF score = NaN THEN "Very Weak"
    ELSE IF score > 800000 THEN "Very Strong"
    ELSE IF score > 600000 THEN "Strong"
    ELSE IF score > 400000 THEN "Moderate"
    ELSE IF score > 200000 THEN "Weak"
    ELSE "Very Weak"

\* the thresholds 0.8, 0.6, 0.4 and 0.2 in millionths
getStrengthLevel(score) ==
    IF score = NaN THEN "Very Weak"
    ELSE IF score >= 800000 THEN "Very Strong"
    ELSE IF score >= 600000 THEN "Strong"
    ELSE IF score >= 400000 THEN "Moderate"
    ELSE IF score >= 200000 THEN "Weak"
    ELSE "Very Weak"

getStrengthColor(level) ==
    CASE level = "Very Strong" -> "#2ed573"
      [] level = "Strong" -> "#5352ed"
      [] level = "Moderate" -> "#f1c40f"
      [] level = "Weak" -> "#ffa502"
      [] level = "Very Weak" -> "#ff4757"

\* Math.min(x / cap, 1) * weight, for x in micro-bits and cap in bits
Capped(x, cap, weight) ==
    IF x = Infinity \/ x >= cap * Unit THEN weight
    ELSE (x * (weight \div 10000)) \div (cap * (Unit \div 10000))

\* the length term without its Math.min
Subtotal_NoLengthCap(password, entropy) ==
    Len(password) * (250000 \div 20)
    + Capped(entropy.shannon, 50, 300000)
    + (entropy.charset * 150000) \div 94
    + entropy.uniqueness \div 10
    + Capped(entropy.nist, 60, 100000)
    + 100000

\* the score before the penalties
Subtotal(password, entropy) ==
    Min(Len(password), 20) * (250000 \div 20)
    + Capped(entropy.shannon, 50, 300000)
    + (entropy.charset * 150000) \div 94
    + entropy.uniqueness \div 10
    + Capped(entropy.nist, 60, 100000)
    + 100000

\* the dictionary factor applied before the pattern penalty
FinalScore_DictionaryFirst(password, entropy, patterns) ==
    IF entropy.uniqueness = NaN THEN NaN
    ELSE Max(0, (Subtotal(password, entropy) * (IF patterns.dictionary THEN 3 ELSE 10))
                    \div 10 - patterns.count * 80000)

\* the score without the factor 0.3 for a common password
FinalScore_NoFactor(password, entropy, patterns) ==
    IF entropy.uniqueness = NaN THEN NaN
    ELSE Max(0, Subtotal(password, entropy) - patterns.count * 80000)

FinalScore(password, entropy, patterns) ==
    IF entropy.uniqueness = NaN THEN NaN
    ELSE (Max(0, Subtotal(password, entropy) - patterns.count * 80000)
          * (IF patterns.dictionary THEN 3 ELSE 10)) \div 10

\* { score, level, color: this.getStrengthColor(level) }
StrengthOf(score, level) ==
    [score |-> score, level |-> level, color |-> getStrengthColor(level)]

Levelled(score) == StrengthOf(score, getStrengthLevel(score))

calculateStrength(password, entropy, patterns) ==
    Levelled(FinalScore(password, entropy, patterns))

(* A positive duration or guess count x is kept as log2(x) in micro-bits.  *)

\* log2 of the three attack rates 1000, 1000000 and 1000000000 guesses/sec
OnlineRate == 3 * log2(10)

CpuRate == 6 * log2(10)

GpuRate == 9 * log2(10)

\* a duration in seconds is either exact, v counting the fractions
\* 1 / PerSecond of a second, or a power of two, v being its log2 in Unit
PerSecond == 10

Exactly(v) == [exact |-> TRUE, v |-> v]

Exp2(v) == [exact |-> FALSE, v |-> v]

\* the unit sizes 1, 60, 3600, 86400 and 31536000 seconds and their log2
Second == [size |-> 1, lg |-> 0]

Minute == [size |-> 60, lg |-> log2(60)]

Hour == [size |-> 3600, lg |-> 2 * log2(60)]

Day == [size |-> 86400, lg |-> log2(24) + 2 * log2(60)]

Year == [size |-> 31536000, lg |-> log2(365) + log2(24) + 2 * log2(60)]

\* the largest n whose rounding interval the table of logarithms covers
MaxExact == (Len(Log2Table) - 1) \div 2

\* Math.round(2^(x / Unit)) for x >= 0: the n with n - 1/2 <= 2^x < n + 1/2.
\* Beyond MaxExact the number is kept as n = 0 and exp = floor(x / Unit).
RoundExp2(x) ==
    IF x < log2(2 * MaxExact + 1) - Unit
    THEN [n |-> CHOOSE n \in 1..MaxExact :
                    log2(2 * n - 1) - Unit <= x /\ x < log2(2 * n + 1) - Unit,
          exp |-> 0]
    ELSE [n |-> 0, exp |-> x \div Unit]

\* seconds < size
Less(seconds, unit) ==
    IF seconds.exact THEN seconds.v < unit.size * PerSecond ELSE seconds.v < unit.lg

\* Math.floor(seconds / size) in the place of Math.round
Rounded_Floor(seconds, unit) ==
    IF seconds.exact
    THEN [n |-> seconds.v \div (unit.size * PerSecond), exp |-> 0]
    ELSE RoundExp2(seconds.v - unit.lg)

\* Math.round(seconds / size): halves go up
Rounded(seconds, unit) ==
    IF seconds.exact
    THEN [n |-> (seconds.v + (unit.size * PerSecond) \div 2) \div (unit.size * PerSecond),
          exp |-> 0]
    ELSE RoundExp2(seconds.v - unit.lg)

formatTime(seconds) ==
    IF Less(seconds, Second) THEN [amount |-> [n |-> 0, exp |-> 0], unit |-> "Instant"]
    ELSE IF Less(seconds, Minute) THEN [amount |-> Rounded(seconds, Second), unit |-> "seconds"]
    ELSE IF Less(seconds, Hour) THEN [amount |-> Rounded(seconds, Minute), unit |-> "minutes"]
    ELSE IF Less(seconds, Day) THEN [amount |-> Rounded(seconds, Hour), unit |-> "hours"]
    ELSE IF Less(seconds, Year) THEN [amount |-> Rounded(seconds, Day), unit |-> "days"]
    ELSE [amount |-> Rounded(seconds, Year), unit |-> "years"]

\* guesses = 2^(shannon / 2), kept as its log2
CrackTimesOf(guesses) ==
    [online |-> formatTime(Exp2(guesses - OnlineRate)),
     offline_cpu |-> formatTime(Exp2(guesses - CpuRate)),
     offline_gpu |-> formatTime(Exp2(guesses - GpuRate))]

estimateCrackTimes(password, entropy) == CrackTimesOf(entropy.shannon \div 2)

\* recommendations.push(text) when cond holds
PushIf(cond, text) == IF cond THEN <<text>> ELSE <<>>

\* the pushes of generateRecommendations before the last test
Advice(password, patterns) ==
    PushIf(Len(password) < 12, "Increase password length to at least 12 characters")
    \o PushIf(~HasLower(password), "Add lowercase letters")
    \o PushIf(~HasUpper(password), "Add uppercase letters")
    \o PushIf(~HasDigit(password), "Add numbers")
    \o PushIf(~HasOther(password), "Add special characters (!@#$%^&*)")
    \o PushIf(patterns.repeated, "Avoid repeated characters")
    \o PushIf(patterns.sequential, "Avoid sequential patterns")
    \o PushIf(patterns.keyboard, "Avoid keyboard patterns")
    \o PushIf(patterns.dictionary, "Avoid common dictionary words")
    \o PushIf(patterns.date, "Avoid dates and years")

\* the praise pushed without looking at the length of the list
OrExcellent_Always(advice) ==
    Append(advice, "Excellent password! Consider using a password manager")

\* if (recommendations.length === 0) push the praise
OrExcellent(advice) ==
    IF Len(advice) = 0
    THEN <<"Excellent password! Consider using a password manager">>
    ELSE advice

generateRecommendations(password, patterns, strength) ==
    OrExcellent(Advice(password, patterns))

Issue(cond, severity, message) ==
    IF cond THEN <<[severity |-> severity, message |-> message]>> ELSE <<>>

\* the test of the length pushed first, before the dictionary
identifySecurityIssues_LengthFirst(password, patterns) ==
    Issue(Len(password) < 8, "high", "Password is too short (less than 8 characters)")
    \o Issue(patterns.dictionary, "high", "Password found in common password lists")
    \o Issue(patterns.repeated, "medium", "Contains repeated character sequences")
    \o Issue(patterns.keyboard, "medium", "Contains keyboard patterns")
    \o Issue(patterns.personal, "medium", "May contain personal information")
    \o Issue(~HasOther(password), "low", "No special characters used")

identifySecurityIssues(password, patterns) ==
    Issue(patterns.dictionary, "high", "Password found in common password lists")
    \o Issue(Len(password) < 8, "high", "Password is too short (less than 8 characters)")
    \o Issue(patterns.repeated, "medium", "Contains repeated character sequences")
    \o Issue(patterns.keyboard, "medium", "Contains keyboard patterns")
    \o Issue(patterns.personal, "medium", "May contain personal information")
    \o Issue(~HasOther(password), "low", "No special characters used")

\* the score cut off instead of rounded
DisplayScore_Floor(score) == IF score = NaN THEN NaN ELSE (score * 100) \div One

\* Math.round(strength.score * 100)
DisplayScore(score) == IF score = NaN THEN NaN ELSE Round(score * 100, One)

\* the report of one analysis, given the lastIndex of the regular expressions
\* the object performAnalysis returns
ReportOf(password, entropy, patterns, strength) ==
    [entropy |-> entropy,
     patterns |-> patterns,
     strength |-> strength,
     crackTimes |-> estimateCrackTimes(password, entropy),
     recommendations |-> generateRecommendations(password, patterns, strength),
     securityIssues |-> identifySecurityIssues(password, patterns),
     score |-> DisplayScore(strength.score)]

Analyse(password, entropy, patterns) ==
    ReportOf(password, entropy, patterns, calculateStrength(password, entropy, patterns))

\* the report of one analysis, given the lastIndex of the regular expressions
performAnalysis(password, li) ==
    Analyse(password, calculateEntropy(password), detectPatterns(password, li))

(* ------------------------------ bounds --------------------------------- *)

\* longest password enumerated over TypingAlphabet
MaxLen == 3

\* longest of the long passwords (the first k characters of aA1!aA1!...)
MaxLong == 160

\* analysis requests that may be waiting for their 1500 ms timer at once
MaxPending == 2

(* ------------------------------ inputs --------------------------------- *)

TypingAlphabet == {"a", "b", "A", "1", "2", "!", " "}

RECURSIVE StringsOfLength(_)
StringsOfLength(n) ==
    IF n = 0 THEN {<<>>}
    ELSE {Append(s, c) : s \in StringsOfLength(n - 1), c \in TypingAlphabet}

ShortStrings == UNION {StringsOfLength(n) : n \in 0..MaxLen}

LongBlock == <<"a", "A", "1", "!">>

LongString(k) == [i \in 1..k |-> LongBlock[((i - 1) % 4) + 1]]

LongStrings == {LongString(k) : k \in 150..MaxLong}

NamedStrings ==
    {<<"p", "a", "s", "s", "w", "o", "r", "d">>,
     <<"P", "a", "s", "s", "w", "o", "r", "d">>,
     <<"P", "A", "S", "S", "W", "O", "R", "D">>,
     <<"q", "w", "e", "r", "t", "y", "1", "2", "3">>,
     <<"T", "r", "0", "u", "b", "4", "d", "o", "r", "&", "3">>,
     <<"a", "B", "3", "$", "x", "K", "9", "!", "m", "Q", "7", "@", "z", "W", "5", "#", "p", "L", "2", "&">>,
     <<"h", "J", "4", "%", "k", "R", "8", "?", "n", "V", "6", "+", "y", "D">>,
     <<"j", "o", "h", "n", " ", "1", "9", "8", "7">>,
     <<"m", "y", "-", "a", "d", "m", "i", "n", "-", "p", "w">>,
     <<"x", "1", "9", "9", "9", "y">>,
     <<"1", "9", "9", "9">>,
     <<"2", "1", "0", "0">>,
     <<"1", "2", "/", "2", "5", "/", "2", "0", "2", "0">>,
     <<"2", "5", "/", "1", "2", "/", "2", "0", "2", "0">>,
     <<"1", "-", "2", "-", "9", "9">>,
     <<"@", "$", "!", "e", "0", "x">>,
     <<"a", "a", "a", "a", "a", "a", "a", "a">>,
     <<"z", "x", "c", "v", "b", "n", "m", ",", ".", "/", "Z", "X", "C", "V">>,
     <<"a", "b", "c">>,
     <<"A", "b", "C", "d">>,
     <<"1", "2", "3">>,
     <<"3", "2", "1">>,
     <<"1", "2", "3", "4">>,
     <<"h", "J", "%", "k", "R", "?", "n", "V", "+", "y", "D", "w", " ", "2", "1", "0", "0">>,
     <<"A", "d", "m", "i", "n">>,
     <<"q", "w", "e", "r", "t", "y">>,
     <<"1", "2", "3", "4", "5", "6">>,
     <<"1", "2", "3", "4", "5", "6", "7", "8", "9">>,
     <<"a", "b", "c", "1", "2", "3">>,
     <<"p", "a", "s", "s", "w", "o", "r", "d", "1", "2", "3">>,
     <<"P", "a", "s", "s", "W", "o", "r", "d", "1", "2", "3">>,
     <<"l", "e", "t", "m", "e", "i", "n">>,
     <<"L", "e", "t", "M", "e", "I", "n">>,
     <<"w", "e", "l", "c", "o", "m", "e">>,
     <<"m", "o", "n", "k", "e", "y">>,
     <<"1", "2", "3", "4", "5", "6", "7", "8", "9", "0">>,
     <<"d", "r", "a", "g", "o", "n">>,
     <<"D", "R", "A", "G", "O", "N">>,
     <<"p", "p", "1", "Y">>,
     <<"X", "9", "K", "o", "X", "t", "A", "n">>,
     <<"e", "M", "w", "y", "o", "$", "q", "r", "x", "A", "#">>}

\* what the password field may hold when the engine is exercised
Passwords == ShortStrings \cup LongStrings \cup NamedStrings

\* what the user types in the page model
TypedValues ==
    {<<>>, <<" ", " ">>,
     <<"q", "w", "e", "r", "t", "y", "1", "2", "3">>,
     <<" ", "P", "a", "s", "s", "w", "o", "r", "d">>,
     <<"a", "B", "1", "!">>}

(* ------------------------------- state --------------------------------- *)

VARIABLES
    inputValue,      \* passwordInput.value
    breachCheck,     \* breachCheck.checked
    resultsVisible,  \* resultsSection.style.display = 'block'
    loadingSpinner,  \* loadingSpinner.style.display = 'flex'
    pending,         \* the passwords of the analyzePassword calls waiting in await
    display,         \* scoreValue, strengthText and its colour: <<>> or <<record>>
    detailed,        \* the detailed analysis containers: <<>> or <<record>>
    detailedVisible, \* detailedAnalysis.style.display = 'block'
    lastAnalysis,    \* this.lastAnalysis: <<>> or <<record>>
    alertOpen,       \* the text of the alert() on screen, "none" without one
    lastIndex,       \* lastIndex of the regular expressions of commonPatterns
    inputType,       \* passwordInput.type
    toggleIcon,      \* the className of the icon of togglePassword
    autoAnalyze,     \* the setTimeout(..., 500) calls of the generators not yet due
    exported,        \* the last file exportResults has downloaded: <<>> or <<document>>
    analysed,        \* history: the argument of the last performAnalysis: <<>> or <<p>>
    remembered,      \* history: one earlier call of performAnalysis and its report
    arg,             \* the score handed to getStrengthLevel on its own: <<>> or <<s>>
    ret              \* what it returned: <<>> or <<record>>

page ==
    <<inputValue, breachCheck, resultsVisible, loadingSpinner, pending, display,
      detailed, detailedVisible, lastAnalysis, alertOpen, lastIndex, analysed,
      remembered, inputType, toggleIcon, autoAnalyze, exported>>

call == <<arg, ret>>

\* the groups of variables the handlers of the analysis leave alone
field == <<inputType, toggleIcon>>

timers == <<autoAnalyze, exported>>

vars == <<page, call>>

\* the state of the page after new PasswordAnalyzer(), the field holding v
Constructed(v) ==
    /\ inputValue = v
    /\ breachCheck \in BOOLEAN
    /\ resultsVisible = FALSE
    /\ loadingSpinner = FALSE
    /\ pending = <<>>
    /\ display = <<>>
    /\ detailed = <<>>
    /\ detailedVisible = FALSE
    /\ lastAnalysis = <<>>
    /\ alertOpen = "none"
    /\ lastIndex = [re \in RegExpNames |-> 0]
    /\ inputType = "password"
    /\ toggleIcon = "fas fa-eye"
    /\ autoAnalyze = <<>>
    /\ exported = <<>>
    /\ analysed = <<>>
    /\ remembered = <<>>

Init == Constructed(<<>>) /\ arg = <<>> /\ ret = <<>>

InitEngine == (\E v \in Passwords : Constructed(v)) /\ arg = <<>> /\ ret = <<>>

(* ------------------------------ handlers ------------------------------- *)

\* Number.prototype.toFixed(digits) of a fixed-point number with unit u
toFixed(x, u, digits) ==
    IF x = Infinity \/ x = NaN THEN x ELSE Round(x, u \div 10 ^ digits)

\* alert() blocks the page until the user dismisses it: no handler and no
\* timer runs in between
Dismiss ==
    /\ alertOpen # "none"
    /\ alertOpen' = "none"
    /\ UNCHANGED <<inputValue, breachCheck, resultsVisible, loadingSpinner, pending,
                   display, detailed, detailedVisible, lastAnalysis, lastIndex,
                   analysed, remembered, field, timers, call>>

\* the 'input' event of the password field: the user changes its content
Typing(values) ==
    /\ alertOpen = "none"
    /\ \E v \in values : v # inputValue /\ inputValue' = v
    /\ resultsVisible' = FALSE
    /\ UNCHANGED <<breachCheck, loadingSpinner, pending, display, detailed,
                   detailedVisible, lastAnalysis, alertOpen, lastIndex, analysed,
                   remembered, field, timers, call>>

clearResults == Typing(TypedValues)

\* the user ticks or unticks the detailed-analysis checkbox (no handler)
ToggleBreachCheck ==
    /\ alertOpen = "none"
    /\ breachCheck' = ~breachCheck
    /\ UNCHANGED <<inputValue, resultsVisible, loadingSpinner, pending, display,
                   detailed, detailedVisible, lastAnalysis, alertOpen, lastIndex,
                   analysed, remembered, field, timers, call>>

InvalidInput == "Please enter a password to analyze"

\* the guard of analyzePassword and showLoading(true)
Request(password) ==
    /\ alertOpen = "none"
    /\ IF password = <<>>
       THEN /\ alertOpen' = InvalidInput
            /\ UNCHANGED <<loadingSpinner, pending>>
       ELSE /\ Len(pending) < MaxPending
            /\ loadingSpinner' = TRUE
            /\ pending' = Append(pending, password)
            /\ UNCHANGED alertOpen

\* analyzePassword up to its await
analyzePassword ==
    /\ Request(trim(inputValue))
    /\ UNCHANGED <<inputValue, breachCheck, resultsVisible, display, detailed,
                   detailedVisible, lastAnalysis, lastIndex, analysed, remembered,
                   field, exported, call>>

\* the user asks for an analysis: no timer of a generator is touched (every
\* timer set keeps its place among the MaxPending that may be waiting)
ByUser ==
    /\ Len(pending) + Len(autoAnalyze) < MaxPending \/ trim(inputValue) = <<>>
    /\ analyzePassword
    /\ UNCHANGED autoAnalyze

\* a click on analyzeBtn
AnalyzeClick == ByUser

Keys == {"Enter", "a"}

\* a keypress in the password field: only Enter starts an analysis
Keypress ==
    \E key \in Keys : IF key = "Enter" THEN ByUser ELSE UNCHANGED vars

\* what updateEntropyDetails ... updateRecommendations write
DetailedOf(analysis, password) ==
    [shannon |-> toFixed(analysis.entropy.shannon, Unit, 2),
     nist |-> toFixed(analysis.entropy.nist, Unit, 2),
     charset |-> analysis.entropy.charset,
     uniqueness |-> toFixed(analysis.entropy.uniqueness, One \div 100, 1),
     length |-> Len(password),
     patterns |-> [k \in FlagNames |-> analysis.patterns[k]],
     crackTimes |-> analysis.crackTimes,
     securityIssues |-> analysis.securityIssues,
     recommendations |-> analysis.recommendations]

Hidden == <<"*", "*", "*", "h", "i", "d", "d", "e", "n", "*", "*", "*">>

\* the record kept with the password itself
Stored_Plain(analysis, password) == [analysis |-> analysis, password |-> password]

\* this.lastAnalysis = { analysis, password: '***hidden***' }
Stored(analysis, password) == [analysis |-> analysis, password |-> Hidden]

displayResults(analysis, password) ==
    /\ display' = <<[scoreValue |-> analysis.score,
                     strengthText |-> analysis.strength.level,
                     color |-> analysis.strength.color]>>
    /\ IF breachCheck
       THEN detailed' = <<DetailedOf(analysis, password)>> /\ detailedVisible' = TRUE
       ELSE detailedVisible' = FALSE /\ UNCHANGED detailed
    /\ lastAnalysis' = <<Stored(analysis, password)>>
    /\ resultsVisible' = TRUE

\* history: a call may be remembered while none is; from then on phase tells
\* whether another password was analysed since (1) and whether the remembered
\* one was analysed again after that (2)
Remember(r, password, analysis) ==
    IF r = <<>>
    THEN {r, <<[password |-> password, analysis |-> analysis, phase |-> 0]>>}
    ELSE IF r[1].phase = 0 /\ password # r[1].password
    THEN {<<[r[1] EXCEPT !.phase = 1]>>}
    ELSE IF r[1].phase = 1 /\ password = r[1].password
    THEN {<<[r[1] EXCEPT !.phase = 2]>>}
    ELSE {r}

\* analyzePassword from the end of its 1500 ms delay: the timers fire in the
\* order in which they were set
\* the try block after the await, and the finally
Resume(password, analysis, history) ==
    /\ displayResults(analysis, password)
    /\ lastIndex' = LastIndexAfter(password, lastIndex)
    /\ analysed' = <<password>>
    /\ remembered' \in (IF history THEN Remember(remembered, password, analysis)
                         ELSE {remembered})
    /\ loadingSpinner' = FALSE

\* a timer of 1500 ms is due only after every timer set before it
Due(history) ==
    /\ alertOpen = "none"
    /\ pending # <<>>
    /\ \A k \in 1..Len(autoAnalyze) : autoAnalyze[k].older >= 1
    /\ Resume(Head(pending), performAnalysis(Head(pending), lastIndex), history)
    /\ pending' = Tail(pending)
    /\ autoAnalyze' = [k \in 1..Len(autoAnalyze) |->
                          [autoAnalyze[k] EXCEPT !.older = @ - 1]]
    /\ UNCHANGED <<inputValue, breachCheck, alertOpen, field, exported, call>>

\* the same with the history of earlier calls kept in remembered
AnalysisTimer == Due(TRUE)

Next ==
    \/ Dismiss
    \/ clearResults
    \/ ToggleBreachCheck
    \/ AnalyzeClick
    \/ Keypress
    \/ AnalysisTimer

Spec == Init /\ [][Next]_vars

NextEngine ==
    \/ Dismiss
    \/ AnalyzeClick
    \/ Keypress
    \/ AnalysisTimer

EngineSpec == InitEngine /\ [][NextEngine]_vars


(* getStrengthLevel and getStrengthColor on their own, for the scores around *)
(* the four thresholds and at the two ends of the scale.                     *)

\* how far around each threshold the scores are taken, in millionths
MaxDelta == 12

Thresholds == {200000, 400000, 600000, 800000}

ScoreSamples ==
    {0, One} \cup {t + d * 10 : t \in Thresholds, d \in (0 - MaxDelta)..MaxDelta}
    \cup {t + d : t \in Thresholds, d \in (0 - MaxDelta)..MaxDelta}

InitLevel == Constructed(<<>>) /\ arg \in {<<s>> : s \in ScoreSamples} /\ ret = <<>>

ClassifyScore ==
    /\ ret = <<>>
    /\ ret' = <<Levelled(arg[1])>>
    /\ UNCHANGED <<page, arg>>

NextLevel == ClassifyScore

LevelSpec == InitLevel /\ [][NextLevel]_vars


(* detectPatterns on its own, for passwords that hold a year or a numeric   *)
(* date, or something close to one.                                         *)

Str1(a) == <<a>>

Str2(a, b) == <<a, b>>

\* the digit groups tried as first and second field of a date
FieldSamples ==
    {Str1("0"), Str1("1"), Str1("9"), Str2("0", "0"), Str2("0", "1"), Str2("1", "2"),
     Str2("1", "3"), Str2("2", "5"), Str2("3", "1"), Str2("3", "2")}

\* the digit groups tried as its year
YearSamples ==
    {Str1("7"), Str2("9", "9"), <<"3", "4", "5">>, <<"1", "8", "7", "5">>,
     <<"2", "0", "2", "0">>, <<"2", "0", "2", "0", "1">>}

\* what may stand before and after the date
Affixes == {<<>>, Str1("x"), Str1(" "), Str1("_"), Str1("4")}

NumericDates ==
    {f \o Str1(s) \o g \o Str1(t) \o y :
        f \in FieldSamples, g \in FieldSamples, y \in YearSamples,
        s \in DateSeparator, t \in DateSeparator}

YearLike ==
    {<<"1", "8", "9", "9">>, <<"1", "9", "0", "0">>, <<"1", "9", "9", "9">>,
     <<"2", "0", "0", "0">>, <<"2", "0", "9", "9">>, <<"2", "1", "0", "0">>,
     <<"1", "9", "9">>, <<"1", "9", "9", "9", "9">>, <<"1", "9", "/", "9", "9">>}

DateStrings ==
    {a \o d \o b : a \in Affixes, b \in Affixes, d \in YearLike}
    \cup {a \o d : a \in Affixes, d \in NumericDates}
    \cup {d \o b : b \in Affixes, d \in NumericDates}

InitDate == Constructed(<<>>) /\ arg \in {<<s>> : s \in DateStrings} /\ ret = <<>>

\* one call of detectPatterns on a fresh analyzer
DetectPatterns ==
    /\ ret = <<>>
    /\ ret' = <<detectPatterns(arg[1], lastIndex)>>
    /\ UNCHANGED <<page, arg>>

\* calculateStrength for the same password, given what detectPatterns found
\* (performAnalysis calls the one after the other)
CalculateStrength ==
    /\ Len(ret) = 1
    /\ ret' = ret \o <<calculateStrength(arg[1], calculateEntropy(arg[1]), ret[1])>>
    /\ UNCHANGED <<page, arg>>

NextDate ==
    \/ DetectPatterns
    \/ CalculateStrength

DateSpec == InitDate /\ [][NextDate]_vars


(* formatTime on its own, for exact numbers of seconds at and around the    *)
(* multiples of half a unit.                                                *)

\* how many half units (half seconds, half minutes, ...) the samples go up to
MaxHalfUnits == 6

UnitSizes == {Second.size, Minute.size, Hour.size, Day.size, Year.size}

\* in fractions 1 / PerSecond of a second
SecondSamples ==
    {45 * PerSecond} \cup
    {t \in {m * ((u * PerSecond) \div 2) + d :
               u \in UnitSizes, m \in 0..MaxHalfUnits, d \in {0 - 1, 0, 1}} : t >= 0}

InitFormat ==
    Constructed(<<>>) /\ arg \in {<<Exactly(t)>> : t \in SecondSamples} /\ ret = <<>>

\* one call of formatTime
FormatTime ==
    /\ ret = <<>>
    /\ ret' = <<formatTime(arg[1])>>
    /\ UNCHANGED <<page, arg>>

NextFormat == FormatTime

FormatSpec == InitFormat /\ [][NextFormat]_vars


(* ------------------- the generators and the export --------------------- *)

\* a click on togglePassword
togglePasswordVisibility ==
    /\ alertOpen = "none"
    /\ inputType' = (IF inputType = "password" THEN "text" ELSE "password")
    /\ toggleIcon' = (IF inputType = "password" THEN "fas fa-eye-slash" ELSE "fas fa-eye")
    /\ UNCHANGED <<inputValue, breachCheck, resultsVisible, loadingSpinner, pending,
                   display, detailed, detailedVisible, lastAnalysis, alertOpen,
                   lastIndex, analysed, remembered, timers, call>>

\* the length of the longest prefix of s made of characters of S
Leading(s, S) ==
    CHOOSE n \in 0..Len(s) :
        /\ \A i \in 1..n : s[i] \in S
        /\ (n = Len(s) \/ s[n + 1] \notin S)

HexDigit == Digit \cup {"a", "b", "c", "d", "e", "f", "A", "B", "C", "D", "E", "F"}

\* the value of the digit c in a radix up to 16
DigitValue(c) ==
    CHOOSE n \in 0..15 :
        c \in {(DigitSeq \o SubSeq(LowerSeq, 1, 6))[n + 1],
                (DigitSeq \o SubSeq(UpperSeq, 1, 6))[n + 1]}

RECURSIVE Numeral(_, _)
Numeral(d, radix) ==
    IF d = <<>> THEN 0
    ELSE radix * Numeral(SubSeq(d, 1, Len(d) - 1), radix) + DigitValue(d[Len(d)])

\* the number written by the digits of S at the start of b, NaN without one
LeadingNumeral(b, S, radix) ==
    IF Leading(b, S) = 0 THEN NaN ELSE Numeral(SubSeq(b, 1, Leading(b, S)), radix)

\* after the sign: 0x or 0X announces radix 16, anything else is radix 10
Unsigned(b) ==
    IF Len(b) >= 2 /\ b[1] = "0" /\ b[2] \in {"x", "X"}
    THEN LeadingNumeral(SubSeq(b, 3, Len(b)), HexDigit, 16)
    ELSE LeadingNumeral(b, Digit, 10)

Signed(a) == IF a # <<>> /\ a[1] \in {"+", "-"} THEN Tail(a) ELSE a

Negated(x) == IF x = NaN THEN NaN ELSE 0 - x

\* parseInt of a string without its leading white space
ParseTrimmed(a) ==
    IF a # <<>> /\ a[1] = "-" THEN Negated(Unsigned(Signed(a))) ELSE Unsigned(Signed(a))

\* parseInt(string), no radix given
parseInt(s) == ParseTrimmed(SubSeq(s, Leading(s, WhiteSpace) + 1, Len(s)))

\* what prompt() returns: <<>> for Cancel (null), <<text>> for OK
Cancelled == <<>>

\* parseInt(answer): null is read as the string 'null'
ParsedAnswer(answer) ==
    IF answer = Cancelled THEN parseInt(<<"n", "u", "l", "l">>) ELSE parseInt(answer[1])

\* x || fallback for a number x
OrElse(x, fallback) == IF x = NaN \/ x = 0 THEN fallback ELSE x

\* the length without its lower limit
PasswordLength_NoFloor(answer) == Min(128, OrElse(ParsedAnswer(answer), 16))

\* Math.max(8, Math.min(128, parseInt(length) || 16))
PasswordLength(answer) == Max(8, Min(128, OrElse(ParsedAnswer(answer), 16)))

\* const chars of generatePassword
GeneratorChars ==
    UpperSeq \o LowerSeq \o DigitSeq \o
    <<"!", "@", "#", "$", "%", "^", "&", "*", "(", ")", "_", "+", "-", "=", "[", "]",
      "{", "}", "|", ";", ":", ",", ".", "<", ">", "?">>

\* String.prototype.charAt with a 0-based index
charAt(s, k) == IF k \in 0..(Len(s) - 1) THEN <<s[k + 1]>> ELSE <<"">>

\* Math.floor(Math.random() * n) of the successive calls: the runs of
\* indices 0..n-1 tried, the i-th pick being first + (i - 1) * step modulo n
RandomRuns == {[first |-> 27, step |-> 23]}

Pick(run, i, n) == (run.first + (i - 1) * run.step) % n

\* password += chars.charAt(...) for i = 0 .. len - 1
Drawn(run, len) ==
    [i \in 1..len |-> charAt(GeneratorChars, Pick(run, i, Len(GeneratorChars)))[1]]

\* the answers to the prompt tried
PromptAnswers ==
    {Cancelled, <<<<>>>>, <<<<"1", "6">>>>, <<<<"0">>>>, <<<<"-", "5">>>>,
     <<<<"7">>>>, <<<<"a", "b", "c">>>>, <<<<" ", "1", "2", "a", "b", "c">>>>,
     <<<<"1", "2", "8">>>>, <<<<"2", "0", "0">>>>, <<<<"0", "x", "C">>>>}


\* what generatePassword does with the password it has drawn
Generated(password) ==
    /\ inputValue' = password
    /\ inputType' = "text"
    /\ toggleIcon' = "fas fa-eye-slash"
    /\ autoAnalyze' = Append(autoAnalyze, [older |-> Len(pending), generated |-> password])
    /\ UNCHANGED <<breachCheck, resultsVisible, loadingSpinner, pending, display,
                   detailed, detailedVisible, lastAnalysis, alertOpen, lastIndex,
                   analysed, remembered, exported, call>>

\* generatePassword when the prompt is answered with answer
generatePasswordWith(answer) ==
    /\ alertOpen = "none"
    /\ Len(pending) + Len(autoAnalyze) < MaxPending
    /\ \E run \in RandomRuns : Generated(Drawn(run, PasswordLength(answer)))

\* a click on generateBtn, the prompt answered with one of answers
GenerateClick(answers) == \E answer \in answers : generatePasswordWith(answer)

generatePassword == GenerateClick(PromptAnswers)

\* String.prototype.toUpperCase, one character
UpperOf(c) ==
    IF c \in Lower THEN UpperSeq[CHOOSE i \in 1..26 : LowerSeq[i] = c] ELSE c

\* const words of generatePassphrase
PhraseWords ==
    <<<<"c", "o", "r", "r", "e", "c", "t">>,
      <<"h", "o", "r", "s", "e">>,
      <<"b", "a", "t", "t", "e", "r", "y">>,
      <<"s", "t", "a", "p", "l", "e">>,
      <<"m", "o", "u", "n", "t", "a", "i", "n">>,
      <<"r", "i", "v", "e", "r">>,
      <<"o", "c", "e", "a", "n">>,
      <<"f", "o", "r", "e", "s", "t">>,
      <<"s", "u", "n", "r", "i", "s", "e">>,
      <<"m", "o", "o", "n", "l", "i", "g", "h", "t">>,
      <<"t", "h", "u", "n", "d", "e", "r">>,
      <<"w", "h", "i", "s", "p", "e", "r">>,
      <<"j", "o", "u", "r", "n", "e", "y">>,
      <<"a", "d", "v", "e", "n", "t", "u", "r", "e">>,
      <<"m", "y", "s", "t", "e", "r", "y">>,
      <<"d", "r", "a", "g", "o", "n">>,
      <<"p", "h", "o", "e", "n", "i", "x">>,
      <<"c", "r", "y", "s", "t", "a", "l">>,
      <<"s", "h", "a", "d", "o", "w">>,
      <<"l", "i", "g", "h", "t", "n", "i", "n", "g">>,
      <<"c", "a", "s", "c", "a", "d", "e">>,
      <<"m", "e", "a", "d", "o", "w">>>>

\* word.charAt(0).toUpperCase() + word.slice(1)
Capitalised(word) == <<UpperOf(charAt(word, 0)[1])>> \o SubSeq(word, 2, Len(word))

\* String(n) of an integer 0 <= n < 100
DecimalString(n) ==
    IF n < 10 THEN <<DigitSeq[n + 1]>>
    ELSE <<DigitSeq[(n \div 10) + 1], DigitSeq[(n % 10) + 1]>>

\* Math.max(3, Math.min(8, parseInt(prompt(...)) || 5))
WordCount(answer) == Max(3, Min(8, OrElse(ParsedAnswer(answer), 5)))

\* selectedWords.join('-') for the words picked by the calls 1 .. count
RECURSIVE Joined(_, _)
Joined(run, count) ==
    IF count = 1 THEN Capitalised(PhraseWords[Pick(run, 1, Len(PhraseWords)) + 1])
    ELSE Joined(run, count - 1) \o <<"-">>
         \o Capitalised(PhraseWords[Pick(run, count, Len(PhraseWords)) + 1])

\* selectedWords.join('-') + Math.floor(Math.random() * 100)
Phrase(run, count) == Joined(run, count) \o DecimalString(Pick(run, count + 1, 100))

\* the answers to the prompt for the number of words tried: Cancel and '2'
PhraseAnswers == {Cancelled, <<<<"2">>>>}

\* generatePassphrase when the prompt is answered with answer
generatePassphraseWith(answer) ==
    /\ alertOpen = "none"
    /\ Len(pending) + Len(autoAnalyze) < MaxPending
    /\ \E run \in RandomRuns : Generated(Phrase(run, WordCount(answer)))

\* a click on passphraseBtn
generatePassphrase == \E answer \in PhraseAnswers : generatePassphraseWith(answer)

\* setTimeout(() => this.analyzePassword(), 500) is due: the timers of equal
\* delay fire in the order in which they were set
AutoAnalyzeTimer ==
    /\ autoAnalyze # <<>>
    /\ analyzePassword
    /\ autoAnalyze' = Tail(autoAnalyze)

\* JSON.stringify of a number: Infinity and NaN are written null
JsonNumber(x) ==
    IF x = Infinity \/ x = NaN THEN [null |-> TRUE, value |-> 0]
    ELSE [null |-> FALSE, value |-> x]

\* JSON.stringify of the report
JsonAnalysis(analysis) ==
    [entropy |-> [shannon |-> JsonNumber(analysis.entropy.shannon),
                  nist |-> JsonNumber(analysis.entropy.nist),
                  charset |-> JsonNumber(analysis.entropy.charset),
                  uniqueness |-> JsonNumber(analysis.entropy.uniqueness)],
     patterns |-> analysis.patterns,
     strength |-> [score |-> JsonNumber(analysis.strength.score),
                   level |-> analysis.strength.level,
                   color |-> analysis.strength.color],
     crackTimes |-> analysis.crackTimes,
     recommendations |-> analysis.recommendations,
     securityIssues |-> analysis.securityIssues,
     score |-> JsonNumber(analysis.score)]

\* new Date().toISOString() at the time of the export
Timestamps == {"2026-01-01T00:00:00.000Z"}

NothingToExport == "No analysis results to export"

\* a click on exportBtn
exportResults ==
    /\ alertOpen = "none"
    /\ IF lastAnalysis = <<>>
       THEN alertOpen' = NothingToExport /\ UNCHANGED exported
       ELSE /\ \E now \in Timestamps :
                  exported' = <<[timestamp |-> now,
                                 analysis |-> JsonAnalysis(lastAnalysis[1].analysis),
                                 password |-> lastAnalysis[1].password]>>
            /\ UNCHANGED alertOpen
    /\ UNCHANGED <<inputValue, breachCheck, resultsVisible, loadingSpinner, pending,
                   display, detailed, detailedVisible, lastAnalysis, lastIndex,
                   analysed, remembered, field, autoAnalyze, call>>

\* what the user types while the generators are exercised
EditedValues == {<<>>, <<" ", "z", "9">>}

EditInput == Typing(EditedValues)

\* the end of the 1500 ms delay of an analysis, no history kept
AnalysisDone == Due(FALSE)

NextTools ==
    \/ Dismiss
    \/ EditInput
    \/ AnalyzeClick
    \/ AnalysisDone
    \/ generatePassword
    \/ AutoAnalyzeTimer

\* the generator beside the analyser
ToolsSpec == Init /\ [][NextTools]_vars

\* the answers tried while the export is exercised: Cancel and '7'
ShortAnswers == {Cancelled, <<<<"7">>>>}

GenerateShort == GenerateClick(ShortAnswers)

NextExport ==
    \/ Dismiss
    \/ EditInput
    \/ AnalyzeClick
    \/ AnalysisDone
    \/ GenerateShort
    \/ AutoAnalyzeTimer
    \/ exportResults
    \/ togglePasswordVisibility

\* analyses, generations and exports, with the visibility toggle
ExportSpec == Init /\ [][NextExport]_vars

NextGenerators ==
    \/ Dismiss
    \/ EditInput
    \/ AnalyzeClick
    \/ AnalysisDone
    \/ GenerateShort
    \/ generatePassphrase
    \/ AutoAnalyzeTimer
    \/ togglePasswordVisibility

\* input edits, both generators, requests and their delayed completions
GeneratorsSpec == Init /\ [][NextGenerators]_vars
(* ----------------------------- properties ------------------------------ *)

\* an analysis has completed; its report and the password it was made of
Done == lastAnalysis # <<>>

Report == lastAnalysis[1].analysis

Analysed == analysed[1]

\* C1: the score of every report lies in [0, 1] and the displayed integer
\* score in 0..100, whatever the password.
C1_ScoreInRange ==
    Done => /\ Report.strength.score >= 0 /\ Report.strength.score <= One
            /\ Report.score \in 0..100

\* a 20-character password of all four classes without patterns scores 1.0
C1_Witness ==
    Done /\ Len(Analysed) >= 20 /\ Report.patterns.count = 0
         /\ Report.strength.score = One /\ Report.score = 100

\* the weighted sum S of the claim, from the metrics of the report
C2_S(p, e) ==
    (IF Len(p) >= 20 THEN 250000 ELSE Len(p) * 12500)
    + (IF e.shannon >= 50 * Unit THEN 300000 ELSE (e.shannon * 3) \div 500)
    + (e.charset * 150000) \div 94
    + e.uniqueness \div 10
    + (IF e.nist >= 60 * Unit THEN 100000 ELSE e.nist \div 600)
    + 100000

C2_Penalised(p, e, count) ==
    IF C2_S(p, e) - 80000 * count > 0 THEN C2_S(p, e) - 80000 * count ELSE 0

PasswordWord == <<"p", "a", "s", "s", "w", "o", "r", "d">>

\* C2: the score is max(0, S - 0.08 * count), times 0.3 exactly when the
\* dictionary flag is set; 'password' in any letter case has the flag set and
\* scores at most 0.3 * S.
C2_ScoreFormula ==
    Done =>
        LET e == Report.entropy
            pat == Report.patterns
            base == C2_Penalised(Analysed, e, pat.count)
        IN /\ pat.dictionary => Report.strength.score = (3 * base) \div 10
           /\ ~pat.dictionary => Report.strength.score = base
           /\ toLowerCase(Analysed) = PasswordWord =>
                 pat.dictionary /\ 10 * Report.strength.score <= 3 * C2_S(Analysed, e)

\* 'Password' has been analysed: the dictionary flag is set and a penalty applied
C2_Witness ==
    Done /\ Analysed # PasswordWord /\ toLowerCase(Analysed) = PasswordWord
         /\ Report.patterns.dictionary /\ Report.patterns.count = 1
         /\ Report.strength.score < C2_S(Analysed, Report.entropy) - 80000

C3_Bands ==
    [lo |-> [VeryStrong |-> 800000, Strong |-> 600000, Moderate |-> 400000,
             Weak |-> 200000, VeryWeak |-> 0],
     hi |-> [VeryStrong |-> One + 1, Strong |-> 800000, Moderate |-> 600000,
             Weak |-> 400000, VeryWeak |-> 200000]]

C3_Key(level) ==
    CASE level = "Very Strong" -> "VeryStrong"
      [] level = "Strong" -> "Strong"
      [] level = "Moderate" -> "Moderate"
      [] level = "Weak" -> "Weak"
      [] level = "Very Weak" -> "VeryWeak"

C3_Colour ==
    [VeryStrong |-> "#2ed573", Strong |-> "#5352ed", Moderate |-> "#f1c40f",
     Weak |-> "#ffa502", VeryWeak |-> "#ff4757"]

\* C3: the level is decided by the score with inclusive lower bounds 0.8,
\* 0.6, 0.4 and 0.2; exactly 0.8 is Very Strong, 0.79999 is Strong; every
\* level has its one colour.
C3_LevelOfScore ==
    ret # <<>> =>
        /\ arg[1] >= C3_Bands.lo[C3_Key(ret[1].level)]
        /\ arg[1] < C3_Bands.hi[C3_Key(ret[1].level)]
        /\ ret[1].color = C3_Colour[C3_Key(ret[1].level)]
        /\ arg[1] = 800000 => ret[1].level = "Very Strong"
        /\ arg[1] = 799990 => ret[1].level = "Strong"

\* the score 0.8 exactly has been classified
C3_Witness == arg = <<800000>> /\ ret # <<>> /\ ret[1].level = "Very Strong"

\* C4: an analysis of a password that was analysed before returns the report
\* it returned then, in every field, whatever was analysed in between.
C4_SameReport ==
    (remembered # <<>> /\ Done /\ Analysed = remembered[1].password)
        => Report = remembered[1].analysis

\* the remembered password was analysed, then another one, then it again
C4_Witness ==
    remembered # <<>> /\ remembered[1].phase = 2 /\ Done
        /\ Analysed = remembered[1].password
        /\ Report.patterns.keyboard

\* the field holds nothing but white space
Blank(s) == \A i \in 1..Len(s) : s[i] \in WhiteSpace

\* C5: a request to analyse an empty or whitespace-only field ends in the
\* invalid-input alert and changes nothing else: no request is started, the
\* engine is not run, spinner, results and stored analysis stay as they were.
C5_EmptyRequestRejected ==
    [][(analyzePassword /\ Blank(inputValue))
          => /\ alertOpen' = InvalidInput
             /\ UNCHANGED <<inputValue, breachCheck, resultsVisible, loadingSpinner,
                            pending, display, detailed, detailedVisible, lastAnalysis,
                            lastIndex, analysed>>]_vars

\* a whitespace-only field was submitted while a request was waiting and the
\* results of an earlier analysis were on display
C5_Witness ==
    /\ alertOpen = InvalidInput
    /\ inputValue # <<>> /\ Blank(inputValue)
    /\ Done /\ resultsVisible /\ pending # <<>>

\* C6: the four entropy metrics of every report are finite numbers; a
\* single-character password has uniqueness 100 and Shannon entropy 0.
C6_MetricsFinite ==
    Done =>
        /\ \A m \in {"shannon", "nist", "charset", "uniqueness"} :
              Report.entropy[m] \notin {Infinity, NaN}
        /\ Len(Analysed) = 1 =>
              Report.entropy.uniqueness = One /\ Report.entropy.shannon = 0

\* C7: entropy.nist is length * log2(charset) for passwords of every length.
C7_NistFormula ==
    Done => Report.entropy.nist = Len(Analysed) * log2(Report.entropy.charset)

\* the size of the class a character belongs to
ClassSize(c) ==
    IF c \in Lower THEN 26 ELSE IF c \in Upper THEN 26
    ELSE IF c \in Digit THEN 10 ELSE 32

ClassName(c) ==
    IF c \in Lower THEN "lower" ELSE IF c \in Upper THEN "upper"
    ELSE IF c \in Digit THEN "digit" ELSE "other"

RECURSIVE SumOfSet(_)
SumOfSet(S) ==
    IF S = {} THEN 0 ELSE LET x == CHOOSE y \in S : TRUE IN x[2] + SumOfSet(S \ {x})

\* the sums of the 15 non-empty subsets of the class sizes 26, 26, 10 and 32
NonZeroSums == {10, 26, 32, 36, 42, 52, 58, 62, 68, 84, 94}

\* C8: entropy.charset is the sum of the sizes of the character classes that
\* occur in the password, each counted once however many of its characters
\* occur; for a non-empty password it is a non-zero sum and at most 94.
C8_CharsetByPresence ==
    Done =>
        /\ Report.entropy.charset =
              SumOfSet({<<ClassName(Analysed[i]), ClassSize(Analysed[i])>> :
                           i \in 1..Len(Analysed)})
        /\ Report.entropy.charset \in NonZeroSums
        /\ Report.entropy.charset <= 94

\* a password with several characters of each of the four classes
C8_Witness ==
    Done /\ Report.entropy.charset = 94 /\ Len(Analysed) > 8
         /\ Cardinality({i \in 1..Len(Analysed) : Analysed[i] \in Lower}) > 1
         /\ Cardinality({i \in 1..Len(Analysed) : Analysed[i] \in Digit}) > 1

\* the characters tried as the appended one
AppendChars == TypingAlphabet \cup {"z", "Z", "9", "#"}

\* C9: for a password without pattern flags, appending a character that
\* does not occur in it never lowers the length-scaled Shannon entropy.
C9_AppendMonotone ==
    (Done /\ Report.patterns.count = 0) =>
        \A c \in AppendChars \ Range(Analysed) :
            calculateShannonEntropy(Append(Analysed, c)) >= Report.entropy.shannon

\* a flag-free password of several characters, some repeated, for which
\* a new character strictly raises the entropy
C9_Witness ==
    /\ Done /\ Report.patterns.count = 0
    /\ Len(Analysed) > Cardinality(Range(Analysed))
    /\ \E c \in AppendChars \ Range(Analysed) :
          calculateShannonEntropy(Append(Analysed, c)) > Report.entropy.shannon

Bit(b) == IF b THEN 1 ELSE 0

\* C10: patterns.count is the number of true flags among the seven, an
\* integer in 0..7, and does not count itself.
C10_CountOfFlags ==
    Done =>
        LET pat == Report.patterns
        IN /\ pat.count = Bit(pat.keyboard) + Bit(pat.repeated) + Bit(pat.sequential)
                           + Bit(pat.date) + Bit(pat.leet) + Bit(pat.dictionary)
                           + Bit(pat.personal)
           /\ pat.count \in 0..7

\* a report with three flags set, one of them not a regular expression
C10_Witness ==
    Done /\ Report.patterns.count = 3 /\ Report.patterns.personal
         /\ Report.patterns.date /\ Report.patterns.repeated


\* the value of a group of decimal digits
C11_DigitValue(c) == CHOOSE n \in 0..9 : DigitSeq[n + 1] = c

RECURSIVE C11_Value(_)
C11_Value(d) ==
    IF d = <<>> THEN 0
    ELSE 10 * C11_Value(SubSeq(d, 1, Len(d) - 1)) + C11_DigitValue(d[Len(d)])

\* the characters i..j of s are digits and no letter, digit or underscore
\* touches them on either side
C11_Standalone(s, i, j) ==
    /\ 1 <= i /\ i <= j /\ j <= Len(s)
    /\ \A k \in i..j : s[k] \in Digit
    /\ (i = 1 \/ s[i - 1] \notin WordChar)
    /\ (j = Len(s) \/ s[j + 1] \notin WordChar)

C11_HasYear(s) ==
    \E i \in 1..Len(s) :
        C11_Standalone(s, i, i + 3) /\ C11_Value(SubSeq(s, i, i + 3)) \in 1900..2099

\* a group of one or two digits worth 1..firstMax, a separator, a group of
\* one or two digits worth 1..secondMax, a separator, two or four digits;
\* nothing of a word before or after
C11_HasDate(s, firstMax, secondMax) ==
    \E i \in 1..Len(s), a \in 1..2, b \in 1..2, c \in {2, 4} :
        LET j == i + a + b + c + 1
        IN /\ j <= Len(s)
           /\ C11_Standalone(s, i, i + a - 1)
           /\ C11_Value(SubSeq(s, i, i + a - 1)) \in 1..firstMax
           /\ s[i + a] \in {"/", "-"}
           /\ \A k \in (i + a + 1)..(i + a + b) : s[k] \in Digit
           /\ C11_Value(SubSeq(s, i + a + 1, i + a + b)) \in 1..secondMax
           /\ s[i + a + b + 1] \in {"/", "-"}
           /\ C11_Standalone(s, i + a + b + 2, j)

\* C11 as claimed: patterns.date is true exactly for the passwords that hold
\* a standalone year 1900..2099 or a numeric date with the day (1..31) first
\* and the month (1..12) second.
C11_DateDayFirst ==
    ret # <<>> =>
        ret[1].date = (C11_HasYear(arg[1]) \/ C11_HasDate(arg[1], 31, 12))

\* C11 as amended: patterns.date is true exactly for the passwords that hold
\* a standalone year 1900..2099 or a numeric date with the month (1..12)
\* first and the day (1..31) second, two or four digits of year, '/' or '-'
\* between them, and no letter, digit or underscore touching it.
C11_DateMonthFirst ==
    ret # <<>> =>
        ret[1].date = (C11_HasYear(arg[1]) \/ C11_HasDate(arg[1], 12, 31))

\* detectPatterns has answered for 12/25/99, a date only when read month first
C11_Witness ==
    /\ ret # <<>> /\ arg = <<<<"1", "2", "/", "2", "5", "/", "9", "9">>>>
    /\ ret[1].date /\ ~C11_HasYear(arg[1])


\* n is t / size rounded to the nearest integer, halves upwards; t and size
\* in tenths of a second
C12_Nearest(t, size, n) ==
    n * size - size \div 2 <= t /\ t < n * size + size \div 2

\* the unit the claim gives to t tenths of a second, and its size in tenths
C12_Unit(t) ==
    IF t < 10 THEN [name |-> "Instant", size |-> 0]
    ELSE IF t < 600 THEN [name |-> "seconds", size |-> 10]
    ELSE IF t < 36000 THEN [name |-> "minutes", size |-> 600]
    ELSE IF t < 864000 THEN [name |-> "hours", size |-> 36000]
    ELSE IF t < 315360000 THEN [name |-> "days", size |-> 864000]
    ELSE [name |-> "years", size |-> 315360000]

\* C12: formatTime answers 'Instant' below one second and otherwise the
\* number of seconds, minutes, hours, days or years, the unit chosen by the
\* limits 60, 3600, 86400 and 31536000 seconds and the number rounded to the
\* nearest integer; 0.5 gives 'Instant', 45 '45 seconds', 90 '2 minutes'.
C12_FormatOfSeconds ==
    (ret # <<>> /\ arg[1].exact) =>
        LET t == arg[1].v
            shown == ret[1]
        IN /\ shown.unit = C12_Unit(t).name
           /\ shown.unit # "Instant" =>
                 shown.amount.exp = 0 /\ C12_Nearest(t, C12_Unit(t).size, shown.amount.n)
           /\ t = 5 => shown.unit = "Instant"
           /\ t = 450 => shown.unit = "seconds" /\ shown.amount.n = 45
           /\ t = 900 => shown.unit = "minutes" /\ shown.amount.n = 2

\* formatTime has answered '2 minutes' for 90 seconds
C12_Witness ==
    /\ ret # <<>> /\ arg = <<Exactly(900)>>
    /\ ret[1].unit = "minutes" /\ ret[1].amount.n = 2


C13_Password == <<"q", "w", "e", "r", "t", "y", "1", "2", "3">>

\* C13: the report of 'qwerty123' has the keyboard and the sequential flag
\* set, the level Very Weak or Weak, and both the advice against keyboard
\* patterns and the advice to make the password longer.
C13_Qwerty123 ==
    (Done /\ Analysed = C13_Password) =>
        /\ Report.patterns.keyboard /\ Report.patterns.sequential
        /\ Report.strength.level \in {"Very Weak", "Weak"}
        /\ "Avoid keyboard patterns" \in Range(Report.recommendations)
        /\ "Increase password length to at least 12 characters"
               \in Range(Report.recommendations)


C14_Password == <<"T", "r", "0", "u", "b", "4", "d", "o", "r", "&", "3">>

C14_ClassAdvice ==
    {"Add lowercase letters", "Add uppercase letters", "Add numbers",
     "Add special characters (!@#$%^&*)"}

\* C14: the report of 'Tr0ub4dor&3' has charset 94, none of the four pieces
\* of advice about character classes, and the level Moderate or Strong.
C14_Troubador ==
    (Done /\ Analysed = C14_Password) =>
        /\ Report.entropy.charset = 94
        /\ Range(Report.recommendations) \cap C14_ClassAdvice = {}
        /\ Report.strength.level \in {"Moderate", "Strong"}

\* 'Tr0ub4dor&3' has been analysed: Strong, and the only advice is the length
C14_Witness ==
    /\ Done /\ Analysed = C14_Password
    /\ Report.strength.level = "Strong" /\ Report.score = 79
    /\ Report.recommendations = <<"Increase password length to at least 12 characters">>


C15_Excellent == "Excellent password! Consider using a password manager"

C15_Length == "Increase password length to at least 12 characters"

\* the advice about length and character classes, in the order of the claim
C15_Head(p) ==
    (IF Len(p) < 12 THEN <<C15_Length>> ELSE <<>>)
    \o (IF Range(p) \cap Lower = {} THEN <<"Add lowercase letters">> ELSE <<>>)
    \o (IF Range(p) \cap Upper = {} THEN <<"Add uppercase letters">> ELSE <<>>)
    \o (IF Range(p) \cap Digit = {} THEN <<"Add numbers">> ELSE <<>>)
    \o (IF Range(p) \subseteq (Lower \cup Upper \cup Digit)
        THEN <<"Add special characters (!@#$%^&*)">> ELSE <<>>)

\* the advice the code has for a flag
C15_Avoid ==
    [repeated |-> "Avoid repeated characters",
     sequential |-> "Avoid sequential patterns",
     keyboard |-> "Avoid keyboard patterns",
     dictionary |-> "Avoid common dictionary words",
     date |-> "Avoid dates and years"]

\* the list without the praise that stands in for an empty one
C15_Advice(recs) == IF recs = <<C15_Excellent>> THEN <<>> ELSE recs

\* C15: the recommendations are the length advice iff length < 12, then the
\* advice for each absent character class in the order lowercase, uppercase,
\* digit, symbol, then one avoidance advice for each of the seven pattern
\* flags that is true.
C15_AdvicePerFlag ==
    Done =>
        LET adv == C15_Advice(Report.recommendations)
            head == C15_Head(Analysed)
            rest == SubSeq(adv, Len(head) + 1, Len(adv))
        IN /\ Len(adv) >= Len(head)
           /\ SubSeq(adv, 1, Len(head)) = head
           /\ \A k \in DOMAIN C15_Avoid :
                 Report.patterns[k] <=> C15_Avoid[k] \in Range(rest)
           /\ Len(rest) = Cardinality({k \in FlagNames : Report.patterns[k]})


\* some advice about length, character classes or patterns is due for p
C16_Triggered(p, patterns) ==
    \/ Len(p) < 12
    \/ Range(p) \cap Lower = {} \/ Range(p) \cap Upper = {} \/ Range(p) \cap Digit = {}
    \/ Range(p) \subseteq (Lower \cup Upper \cup Digit)
    \/ \E k \in DOMAIN C15_Avoid : patterns[k]

C17_Conditions(p, patterns) ==
    <<[holds |-> patterns.dictionary, severity |-> "high"],
      [holds |-> Len(p) < 8, severity |-> "high"],
      [holds |-> patterns.repeated, severity |-> "medium"],
      [holds |-> patterns.keyboard, severity |-> "medium"],
      [holds |-> patterns.personal, severity |-> "medium"],
      [holds |-> Range(p) \subseteq (Lower \cup Upper \cup Digit), severity |-> "low"]>>

C17_Messages ==
    <<"Password found in common password lists",
      "Password is too short (less than 8 characters)",
      "Contains repeated character sequences",
      "Contains keyboard patterns",
      "May contain personal information",
      "No special characters used">>

C17_Rank == [high |-> 3, medium |-> 2, low |-> 1]

\* C17: the security issues are one entry for each condition that holds and
\* no other, with the severity of the condition, in the order dictionary,
\* length < 8, repeated, keyboard, personal, no symbol; so the severities
\* never rise along the list.
C17_IssuesInOrder ==
    Done =>
        LET issues == Report.securityIssues
            cond == C17_Conditions(Analysed, Report.patterns)
            at(k) == {i \in 1..Len(issues) : issues[i].message = C17_Messages[k]}
        IN /\ Len(issues) = Cardinality({k \in 1..6 : cond[k].holds})
           /\ \A k \in 1..6 :
                 /\ Cardinality(at(k)) = (IF cond[k].holds THEN 1 ELSE 0)
                 /\ \A i \in at(k) : issues[i].severity = cond[k].severity
           /\ \A k \in 1..6, l \in 1..6 :
                 k < l => \A i \in at(k) : \A j \in at(l) : i < j
           /\ \A i \in 1..Len(issues), j \in 1..Len(issues) :
                 i < j => C17_Rank[issues[i].severity] >= C17_Rank[issues[j].severity]

\* a password with an issue of each severity has been analysed
C17_Witness ==
    /\ Done /\ Len(Report.securityIssues) >= 3
    /\ Report.securityIssues[1].severity = "high"
    /\ \E i \in 2..Len(Report.securityIssues) : Report.securityIssues[i].severity = "medium"
    /\ Report.securityIssues[Len(Report.securityIssues)].severity = "low"


C18_Levels == {"Very Weak", "Weak", "Moderate", "Strong", "Very Strong"}

C18_Colors == {"#ff4757", "#ffa502", "#f1c40f", "#5352ed", "#2ed573"}

C18_Units == {"Instant", "seconds", "minutes", "hours", "days", "years"}

C18_Advice ==
    {"Increase password length to at least 12 characters", "Add lowercase letters",
     "Add uppercase letters", "Add numbers", "Add special characters (!@#$%^&*)",
     "Avoid repeated characters", "Avoid sequential patterns",
     "Avoid keyboard patterns", "Avoid common dictionary words",
     "Avoid dates and years", "Excellent password! Consider using a password manager"}

\* the report holds numbers, flags and texts of the program, nothing else
C18_ReportOnly(report) ==
    /\ DOMAIN report = {"entropy", "patterns", "strength", "crackTimes",
                        "recommendations", "securityIssues", "score"}
    /\ report.strength.level \in C18_Levels
    /\ report.strength.color \in C18_Colors
    /\ \A k \in DOMAIN report.crackTimes : report.crackTimes[k].unit \in C18_Units
    /\ \A k \in DOMAIN report.patterns \ {"count"} : report.patterns[k] \in BOOLEAN
    /\ report.patterns.count \in 0..7
    /\ Range(report.recommendations) \subseteq C18_Advice
    /\ \A i \in 1..Len(report.securityIssues) :
          /\ report.securityIssues[i].severity \in {"high", "medium", "low"}
          /\ report.securityIssues[i].message \in Range(C17_Messages)

C18_Redacted_Text == <<"*", "*", "*", "h", "i", "d", "d", "e", "n", "*", "*", "*">>

\* C18: the record kept for export and every exported document have the
\* password field '***hidden***' and beside it only the report, whose texts
\* are the program's own, so that the analysed password is in no field; and
\* there is no document as long as no analysis has completed.
C18_Redacted ==
    /\ lastAnalysis # <<>> =>
          /\ analysed # <<>>
          /\ DOMAIN lastAnalysis[1] = {"analysis", "password"}
          /\ lastAnalysis[1].password = C18_Redacted_Text
          /\ lastAnalysis[1].password # analysed[1]
          /\ C18_ReportOnly(lastAnalysis[1].analysis)
    /\ exported # <<>> =>
          /\ lastAnalysis # <<>>
          /\ DOMAIN exported[1] = {"timestamp", "analysis", "password"}
          /\ exported[1].password = C18_Redacted_Text
          /\ exported[1].timestamp \in Timestamps
          /\ C18_ReportOnly(exported[1].analysis)
    /\ alertOpen = NothingToExport => lastAnalysis = <<>> /\ exported = <<>>

\* a generated password of 16 characters has been analysed and exported, and
\* another analysis has been displayed since
C18_Witness ==
    /\ exported # <<>> /\ lastAnalysis # <<>>
    /\ exported[1].analysis # JsonAnalysis(lastAnalysis[1].analysis)
    /\ exported[1].analysis.patterns.count = 0
    /\ exported[1].analysis.crackTimes.online.unit = "days"


\* C19: feedback is given as the user types: every change of the password
\* input to a non-empty value leaves the analysis of the new content under
\* way or on display, so that it is displayed in the end without a click on
\* Analyze and without Enter.
C19_FeedbackWhileTyping ==
    [][(inputValue' # inputValue /\ trim(inputValue') # <<>>) =>
          \/ \E k \in 1..Len(pending') : pending'[k] = trim(inputValue')
          \/ resultsVisible' /\ analysed' = <<trim(inputValue')>>]_vars


\* the numbers the answers tried are read as; the other answers give none
C20_Numbers ==
    {[answer |-> <<<<"1", "6">>>>, n |-> 16], [answer |-> <<<<"0">>>>, n |-> 0],
     [answer |-> <<<<"-", "5">>>>, n |-> 0 - 5], [answer |-> <<<<"7">>>>, n |-> 7],
     [answer |-> <<<<" ", "1", "2", "a", "b", "c">>>>, n |-> 12],
     [answer |-> <<<<"1", "2", "8">>>>, n |-> 128],
     [answer |-> <<<<"2", "0", "0">>>>, n |-> 200],
     [answer |-> <<<<"0", "x", "C">>>>, n |-> 12]}

C20_Length(answer) ==
    IF \E e \in C20_Numbers : e.answer = answer /\ e.n # 0
    THEN LET n == (CHOOSE e \in C20_Numbers : e.answer = answer).n
         IN IF n < 8 THEN 8 ELSE IF n > 128 THEN 128 ELSE n
    ELSE 16

C20_Alphabet ==
    Upper \cup Lower \cup Digit \cup
    {"!", "@", "#", "$", "%", "^", "&", "*", "(", ")", "_", "+", "-", "=", "[", "]",
     "{", "}", "|", ";", ":", ",", ".", "<", ">", "?"}

\* what a click on Generate Password leaves: the password in the input, shown
\* as text, and one more analysis scheduled, for that password
C20_Generates(answer) ==
    /\ Len(inputValue') \in 8..128
    /\ Len(inputValue') = C20_Length(answer)
    /\ Range(inputValue') \subseteq C20_Alphabet
    /\ trim(inputValue') = inputValue'
    /\ inputType' = "text"
    /\ Len(autoAnalyze') = Len(autoAnalyze) + 1
    /\ SubSeq(autoAnalyze', 1, Len(autoAnalyze)) = autoAnalyze
    /\ autoAnalyze'[Len(autoAnalyze')].generated = inputValue'
    /\ pending' = pending

\* C20 as stated: whatever the answer to the prompt, generatePassword writes
\* a password of 8 to 128 characters of its alphabet (16 when the answer is
\* no number other than zero), shows it as text and schedules one analysis,
\* and that analysis is of the generated string itself.
C20_AnalysesGenerated ==
    [][/\ Len(autoAnalyze') > Len(autoAnalyze) =>
             \A answer \in PromptAnswers :
                 generatePasswordWith(answer) => C20_Generates(answer)
       /\ AutoAnalyzeTimer =>
             pending' = Append(pending, Head(autoAnalyze).generated)]_vars

\* C20 amended: the same, but the scheduled analysis is of the trimmed content
\* the input has when the 500 ms are over, or an alert when that is empty: it
\* is of the generated string when the input still holds it.
C20_AnalysesContent ==
    [][/\ Len(autoAnalyze') > Len(autoAnalyze) =>
             \A answer \in PromptAnswers :
                 generatePasswordWith(answer) => C20_Generates(answer)
       /\ AutoAnalyzeTimer =>
             /\ Len(autoAnalyze') = Len(autoAnalyze) - 1
             /\ IF trim(inputValue) = <<>>
                THEN pending' = pending /\ alertOpen' # "none"
                ELSE pending' = Append(pending, trim(inputValue))
             /\ inputValue = Head(autoAnalyze).generated =>
                   pending' = Append(pending, Head(autoAnalyze).generated)]_vars

\* a generated password of 128 characters has been analysed, the input
\* still holding it as text
C20_Witness ==
    /\ analysed # <<>> /\ Len(analysed[1]) = 128
    /\ inputValue = analysed[1] /\ inputType = "text"
    /\ resultsVisible /\ autoAnalyze = <<>> /\ pending = <<>>


\* C21: whenever the results section is visible, what is displayed and what
\* is kept for export is the analysis of the trimmed content the password
\* input has now.
C21_ResultsOfInput ==
    resultsVisible =>
        /\ trim(inputValue) # <<>>
        /\ analysed = <<trim(inputValue)>>
        /\ lastAnalysis # <<>>
        /\ lastAnalysis[1].analysis = performAnalysis(trim(inputValue), lastIndex)
        /\ display # <<>>
        /\ display[1].scoreValue = performAnalysis(trim(inputValue), lastIndex).score
        /\ display[1].strengthText =
              performAnalysis(trim(inputValue), lastIndex).strength.level


\* C22: the loading spinner is visible exactly while at least one analysis
\* request is pending, that is started and not yet completed.
C22_SpinnerWhilePending == loadingSpinner <=> pending # <<>>


\* C23: a password with the dictionary flag, that is a member of the set of
\* common passwords in any letter case, has a final score below 0.4 and so
\* the level Very Weak or Weak.
C23_CommonPasswordWeak ==
    Done =>
        /\ Report.patterns.dictionary <=> toLowerCase(Analysed) \in commonPasswords
        /\ Report.patterns.dictionary =>
              /\ Report.strength.score >= 0
              /\ Report.strength.score < 400000
              /\ Report.strength.level \in {"Very Weak", "Weak"}
              /\ Report.score < 40

\* a common password written partly in capitals has been analysed, one that
\* would be Moderate or better on its other merits
C23_Witness ==
    /\ Done /\ Report.patterns.dictionary
    /\ Analysed \notin commonPasswords
    /\ Subtotal(Analysed, Report.entropy) - 80000 * Report.patterns.count >= 400000
    /\ Report.strength.score > 0


\* the band of displayed scores the claim gives to each level
C24_Band(level) ==
    CASE level = "Very Strong" -> [lo |-> 80, hi |-> 101]
      [] level = "Strong" -> [lo |-> 60, hi |-> 80]
      [] level = "Moderate" -> [lo |-> 40, hi |-> 60]
      [] level = "Weak" -> [lo |-> 20, hi |-> 40]
      [] level = "Very Weak" -> [lo |-> 0, hi |-> 20]

\* C24 as stated: the displayed integer score lies in the band of the level,
\* 80..100 for Very Strong, 60..79 for Strong, 40..59 for Moderate, 20..39
\* for Weak and 0..19 for Very Weak (the bands being disjoint, this is the
\* iff of the claim).
C24_AgreeOnBand ==
    Done =>
        /\ Report.score >= C24_Band(Report.strength.level).lo
        /\ Report.score < C24_Band(Report.strength.level).hi

\* C24 amended: the level is that of the unrounded score and the displayed
\* score is the nearest integer to 100 times it, so the displayed score lies
\* in the band of the level or is the first integer of the next band, which
\* it is exactly when the score is less than half a point below that band.
C24_AgreeWithinHalf ==
    Done =>
        LET band == C24_Band(Report.strength.level)
            score == Report.strength.score
        IN /\ score >= band.lo * (One \div 100)
           /\ score < band.hi * (One \div 100)
           /\ Report.score >= band.lo
           /\ Report.score <= band.hi
           /\ Report.score = band.hi <=>
                 2 * score >= (2 * band.hi - 1) * (One \div 100)

\* a password whose score is displayed as 80 has been rated Strong
C24_Witness ==
    /\ Done /\ Report.score = 80 /\ Report.strength.level = "Strong"
    /\ Report.strength.score < 800000


\* a numeric date, month first, whose year has c digits: nothing of a word
\* before or after it
C25_HasDate(s, c) ==
    \E i \in 1..Len(s), a \in 1..2, b \in 1..2 :
        LET j == i + a + b + c + 1
        IN /\ j <= Len(s)
           /\ C11_Standalone(s, i, i + a - 1)
           /\ C11_Value(SubSeq(s, i, i + a - 1)) \in 1..12
           /\ s[i + a] \in {"/", "-"}
           /\ \A k \in (i + a + 1)..(i + a + b) : s[k] \in Digit
           /\ C11_Value(SubSeq(s, i + a + 1, i + a + b)) \in 1..31
           /\ s[i + a + b + 1] \in {"/", "-"}
           /\ C11_Standalone(s, i + a + b + 2, j)

\* a standalone year 1900..2099 or a date with four digits of year
C25_FourDigitYear(s) == C11_HasYear(s) \/ C25_HasDate(s, 4)

\* C25: a password that holds a standalone 4-digit year or a date with a
\* 4-digit year has the date flag and the personal flag both set, so that
\* patterns.count is at least 2 and the score calculateStrength returns is
\* at least 0.16 below the score before the penalties; a password with the
\* date flag set and the personal flag not set holds a date with a 2-digit
\* year and no 4-digit one.
C25_DateImpliesPersonal ==
    ret # <<>> =>
        /\ C25_FourDigitYear(arg[1]) =>
              /\ ret[1].date /\ ret[1].personal /\ ret[1].count >= 2
              /\ Len(ret) = 2 =>
                    Subtotal(arg[1], calculateEntropy(arg[1])) - ret[2].score >= 160000
        /\ (ret[1].date /\ ~ret[1].personal) =>
              C25_HasDate(arg[1], 2) /\ ~C25_FourDigitYear(arg[1])

\* a date with the year 1875 has been found, date and personal are the only
\* flags set and the score is 0.16 below the score before the penalties
C25_Witness ==
    /\ Len(ret) = 2 /\ C25_HasDate(arg[1], 4) /\ ~C11_HasYear(arg[1])
    /\ ret[1].date /\ ret[1].personal /\ ret[1].count = 2
    /\ ret[2].score = Subtotal(arg[1], calculateEntropy(arg[1])) - 160000
====
